---- MODULE Spec2Model ----
(***************************************************************************)
(* DatabaseSignalsPollingService (services/database-signals-polling.ts,    *)
(* carried in src/DATABASE_OPTIMIZATION.md lines 246-537) as a state       *)
(* machine over the JavaScript event loop.                                 *)
(*                                                                         *)
(* One action is one event-loop task together with the promise             *)
(* continuations it runs to completion: a user call, an interval tick, a   *)
(* network response, the cooldown timeout.  A poll cycle is suspended only *)
(* at its two network calls (license resolution, signal fetch), so an      *)
(* in-flight cycle is a record in `cycles` with pc "resolving" or          *)
(* "fetching".  Times are milliseconds; toISOString() is an order          *)
(* preserving injection of the millisecond clock, so lastPollTime is kept  *)
(* as the millisecond value it encodes.                                    *)
(*                                                                         *)
(* The second part is the server's shared database module (app/api/_db.ts, *)
(* src/unnamed/part_000): the query-result cache, the lazily created       *)
(* connection pool and executeQuery.  It runs in another process than the  *)
(* poller and has its own clock and its own specifications.                *)
(***************************************************************************)
EXTENDS Integers, Sequences, FiniteSets, Bags, TLC

VARIABLES
  now,                \* Date.now()
  isEnabled,          \* this.isEnabled
  intervalId,         \* this.intervalId (0 = null)
  onSignalFound,      \* this.onSignalFound
  onError,            \* this.onError
  currentLicenseKey,  \* this.currentLicenseKey
  currentEA,          \* this.currentEA
  lastPollTime,       \* this.lastPollTime (NoTime = null)
  eaCache,            \* this.eaCache : Map<licenseKey, {ea, timestamp}>
  consecutiveErrors,  \* this.consecutiveErrors
  intervals,          \* live setInterval timers of the runtime
  timeouts,           \* pending setTimeout (cooldown) timers: bag of due times
  cycles,             \* checkForNewSignals invocations awaiting a response
  lastEvent,          \* observation of the step just taken (callbacks invoked, requests issued)
  calls,              \* number of calls made by the application so far
  resolutionFailures, \* observation: resolution failures in a row within the current timer's life
  suspended           \* observation: the latest self-suspension and whether the application called since

\* app/api/_db.ts
VARIABLES
  dbNow,              \* Date.now() of the server process
  cache,              \* cache : Map<string, CacheEntry>, in insertion order
  cleanupDue,         \* next tick of the cache-cleanup setInterval
  pool,               \* pool (NoPool = null)
  poolInitPromise,    \* poolInitPromise (NoPromise = null)
  promises,           \* the init promises made so far and what each settled to
  queries,            \* executeQuery invocations awaiting the pool, a connection or the rows
  ending,             \* closePool invocations awaiting pool.end(): the pool each is ending
  leased,             \* connections checked out of each pool and not yet released
  gotPools,           \* observation: the pools that getPool() calls have resolved to
  closes,             \* observation: number of closePool calls so far
  dbEvent,            \* observation of the step just taken
  stored,             \* observation: the data last passed to setCachedData, per key
  dbCalls             \* number of calls made to the module so far

dbVars == <<dbNow, cache, cleanupDue, pool, poolInitPromise, promises, queries,
            ending, leased, gotPools, closes, dbEvent, stored, dbCalls>>

progVars == <<isEnabled, intervalId, onSignalFound, onError, currentLicenseKey,
              currentEA, lastPollTime, eaCache, consecutiveErrors>>
envVars  == <<now, intervals, timeouts, cycles>>
obsVars  == <<lastEvent, calls, resolutionFailures, suspended>>
pollerVars == <<progVars, envVars, obsVars>>
vars     == <<progVars, envVars, obsVars, dbVars>>

----------------------------------------------------------------------------
\* Program constants
POLL_INTERVAL        == 30000
EA_CACHE_TTL         == 300000
maxConsecutiveErrors == 3
COOLDOWN             == 300000
REQUEST_TIMEOUT      == 10000
DEFAULT_LOOKBACK     == 3600000
CACHE_TTL            == 30000
MAX_CACHE_ENTRIES    == 1000
CLEANUP_INTERVAL     == 60000

\* Bounds of the exploration
MaxTicks    == 12   \* poll intervals the clock runs for
MaxSignals  == 2    \* signals returned by one fetch
\* Spec: cycles one after the other
MaxCalls    == 2    \* calls made by the application
CallWindow  == 1    \* poll intervals during which the application makes its calls
MaxCycles   == 1    \* cycles in flight at once
\* SpecRestart: sessions restarted while cycles of the previous one are in flight
RestartCalls  == 3    \* calls made by the application
RestartWindow == 2    \* poll intervals during which the application makes its calls
RestartCycles == 2    \* cycles in flight at once

\* The clock moves in quanta of one poll interval
ClockStep == POLL_INTERVAL

NULL      == "null"
Undefined == "undefined"
NoTime    == -1
NoTimer   == 0

LicenseKeys == {"K1", "K2"}
\* what the license-resolution service answers for a key when it finds an EA
EAOf(key) == IF key = "K1" THEN "EA1" ELSE "EA2"
\* callback pairs the application passes to startPolling (both are optional)
CallbackPairs == {<<"sig1", "err1">>, <<Undefined, Undefined>>}
Actions == {"BUY", "SELL"}
\* DatabaseSignal: the fields the claims distinguish
Signal(ea, id, action) == [ea |-> ea, id |-> id, action |-> action]
\* what the new-signals service answers: the first n new rows of the EA
SignalLists(ea) ==
  {[i \in 1..n |-> Signal(ea, i, IF i % 2 = 1 THEN "BUY" ELSE "SELL")] :
     n \in 0..MaxSignals}


----------------------------------------------------------------------------
\* Observation record of one step; every action fills in what it did.
NoEvent ==
  [type        |-> "init",     \* which handler ran
   key         |-> NULL,       \* license key of the call or of the cycle
   origin      |-> NULL,       \* "initial" or "tick" for a cycle
   began       |-> FALSE,      \* a cycle began in this step
   lookup      |-> FALSE,      \* a license-resolution request was issued
   fetch       |-> FALSE,      \* a signal-fetch request was issued
   fetchEA     |-> NULL,       \*   its eaId parameter
   since       |-> 0,          \*   its since parameter
   signals     |-> <<>>,       \* signals returned by a successful fetch
   delivered   |-> <<>>,       \* arguments of the onSignalFound invocations, in order
   deliveredTo |-> Undefined,  \* the onSignalFound that was invoked
   deliveredAt |-> NoTime,     \* lastPollTime as it was while delivering
   failed      |-> FALSE,      \* the cycle failed in this step
   errorTo     |-> Undefined,  \* the onError that was invoked
   suspend     |-> FALSE,      \* the poller suspended itself
   noop        |-> FALSE,      \* startPolling returned at its guard
   wasRunning  |-> FALSE]      \* isRunning() before the step

Ev(type) == [NoEvent EXCEPT !.type = type, !.wasRunning = (intervalId # NoTimer)]

NotSuspended ==
  [active |-> FALSE, running |-> FALSE, key |-> NULL, sig |-> Undefined,
   err |-> Undefined, userCalled |-> FALSE]

NoteUserCall == suspended' = [suspended EXCEPT !.userCalled = TRUE]


----------------------------------------------------------------------------
\* Runtime helpers

\* setInterval returns an id that no live timer has; ids are never 0
FreshTimerId == CHOOSE i \in 1..(Cardinality(intervals) + 1) :
                  \A t \in intervals : t.id # i

\* setInterval(cb, POLL_INTERVAL) where cb closes over licenseKey
NewInterval(id, key, mode) ==
  [id |-> id, key |-> key, mode |-> mode, due |-> now + POLL_INTERVAL]

\* clearInterval(id)
ClearInterval(ivs, id) == {t \in ivs : t.id # id}

InFlight == BagCardinality(cycles)
Put(bag, c)  == bag (+) SetToBag({c})
Take(bag, c) == bag (-) SetToBag({c})

----------------------------------------------------------------------------
\* variant: startPolling without its guard
AlreadyRunningUnguarded(id) == FALSE

\* startPolling, line 322: if (this.intervalId) return
AlreadyRunning(id) == id # NoTimer

\* variant: an entry still counts as fresh at the age of exactly the TTL
CacheFreshInclusive(eas, key, t) ==
  key \in DOMAIN eas /\ (t - eas[key].timestamp) <= EA_CACHE_TTL

\* getEAFromLicense, lines 450-451: cached && (Date.now() - cached.timestamp) < EA_CACHE_TTL
CacheFresh(eas, key, t) ==
  key \in DOMAIN eas /\ (t - eas[key].timestamp) < EA_CACHE_TTL

\* getEAFromLicense, line 462: this.eaCache.set(licenseKey, {ea, timestamp: Date.now()})
CacheSet(eas, key, ea, t) ==
  [k \in DOMAIN eas \cup {key} |->
     IF k = key THEN [ea |-> ea, timestamp |-> t] ELSE eas[k]]

\* getNewSignalsForEA, line 479: this.lastPollTime || one hour ago
SinceOf(wm, t) == IF wm # NoTime THEN wm ELSE t - DEFAULT_LOOKBACK

\* variant: the threshold test off by one
ShouldSuspendEarly(n) == n >= maxConsecutiveErrors - 1

\* getNewSignalsForEA, line 502: consecutiveErrors >= maxConsecutiveErrors
ShouldSuspend(n) == n >= maxConsecutiveErrors

\* startRealPolling: the initial check's .catch only logs (lines 388-390);
\* the interval's catch calls this.onError when it is set (lines 397-401)
ReportsError(origin) == origin = "tick"

\* variant: the loop delivers the newest signal first
DeliverNewestFirst(signals, cb) ==
  IF cb # Undefined
  THEN [i \in 1..Len(signals) |-> signals[Len(signals) + 1 - i]]
  ELSE <<>>

\* checkForNewSignals lines 427-432: one onSignalFound call per signal, in order
Deliver(signals, cb) == IF cb # Undefined THEN signals ELSE <<>>

\* variant: a missing EA is not noticed and the cycle goes on to the fetch
NoEAFoundIgnored(ea) == FALSE

\* checkForNewSignals, line 413: if (!ea) return
NoEAFound(ea) == ea = NULL

ResolvingCycle(key, origin) ==
  [key |-> key, origin |-> origin, pc |-> "resolving", ea |-> NULL,
   since |-> 0, issued |-> NoTime]

FetchingCycle(key, origin, ea, wm) ==
  [key |-> key, origin |-> origin, pc |-> "fetching", ea |-> ea,
   since |-> SinceOf(wm, now), issued |-> now]

\* checkForNewSignals(key) up to its first pending network call, with wm the
\* value of this.lastPollTime when the code reads it.  Result: the cycles in
\* flight afterwards, this.currentEA, and the requests issued.
BeginCycle(key, origin, wm) ==
  IF CacheFresh(eaCache, key, now)
  THEN LET ea == eaCache[key].ea IN
       IF NoEAFound(ea)
       THEN [cycles |-> cycles, currentEA |-> currentEA, lookup |-> FALSE,
             fetch |-> FALSE, fetchEA |-> NULL, since |-> 0]
       ELSE [cycles |-> Put(cycles, FetchingCycle(key, origin, ea, wm)),
             currentEA |-> ea, lookup |-> FALSE,
             fetch |-> TRUE, fetchEA |-> ea, since |-> SinceOf(wm, now)]
  ELSE [cycles |-> Put(cycles, ResolvingCycle(key, origin)),
        currentEA |-> currentEA, lookup |-> TRUE,
        fetch |-> FALSE, fetchEA |-> NULL, since |-> 0]

BeginEvent(type, key, origin, r) ==
  [Ev(type) EXCEPT !.key = key, !.origin = origin, !.began = TRUE,
                   !.lookup = r.lookup, !.fetch = r.fetch,
                   !.fetchEA = r.fetchEA, !.since = r.since]

----------------------------------------------------------------------------
InitPoller ==
  /\ now = 0
  /\ isEnabled = TRUE
  /\ intervalId = NoTimer
  /\ onSignalFound = Undefined
  /\ onError = Undefined
  /\ currentLicenseKey = NULL
  /\ currentEA = NULL
  /\ lastPollTime = NoTime
  /\ eaCache = << >>
  /\ consecutiveErrors = 0
  /\ intervals = {}
  /\ timeouts = EmptyBag
  /\ cycles = EmptyBag
  /\ lastEvent = NoEvent
  /\ calls = 0
  /\ resolutionFailures = 0
  /\ suspended = NotSuspended

\* The body of startPolling(key, sf, ef), lines 317-342, with startMockPolling
\* (357-381) and startRealPolling (384-404) inlined.  It leaves isEnabled,
\* eaCache and consecutiveErrors alone; the caller says so.
StartPollingBody(type, key, sf, ef) ==
  IF AlreadyRunning(intervalId)
  THEN /\ lastEvent' = [Ev(type) EXCEPT !.key = key, !.noop = TRUE]
       /\ UNCHANGED <<intervalId, onSignalFound, onError, currentLicenseKey,
                      lastPollTime, currentEA, intervals, cycles,
                      resolutionFailures>>
  ELSE /\ onSignalFound' = sf
       /\ onError' = ef
       /\ currentLicenseKey' = key
       /\ lastPollTime' = now
       /\ intervalId' = FreshTimerId
       /\ resolutionFailures' = 0
       /\ IF ~isEnabled
          THEN /\ intervals' = intervals \cup {NewInterval(FreshTimerId, key, "mock")}
               /\ lastEvent' = [Ev(type) EXCEPT !.key = key]
               /\ UNCHANGED <<currentEA, cycles>>
          ELSE LET r == BeginCycle(key, "initial", now) IN
               /\ intervals' = intervals \cup {NewInterval(FreshTimerId, key, "real")}
               /\ cycles' = r.cycles
               /\ currentEA' = r.currentEA
               /\ lastEvent' = BeginEvent(type, key, "initial", r)

\* The application calls startPolling(key, sf, ef)
StartPolling(key, cb) ==
  /\ calls' = calls + 1
  /\ StartPollingBody("startPolling", key, cb[1], cb[2])
  /\ NoteUserCall
  /\ UNCHANGED <<now, isEnabled, eaCache, consecutiveErrors, timeouts>>

\* variant: stopPolling that forgets the watermark
StopPollingBodyKeepsWatermark ==
  /\ intervals' = IF intervalId # NoTimer
                  THEN ClearInterval(intervals, intervalId) ELSE intervals
  /\ intervalId' = NoTimer
  /\ currentLicenseKey' = NULL
  /\ currentEA' = NULL
  /\ lastPollTime' = lastPollTime

\* The body of stopPolling(), lines 345-354
StopPollingBody ==
  /\ intervals' = IF intervalId # NoTimer
                  THEN ClearInterval(intervals, intervalId) ELSE intervals
  /\ intervalId' = NoTimer
  /\ currentLicenseKey' = NULL
  /\ currentEA' = NULL
  /\ lastPollTime' = NoTime

\* The application calls stopPolling()
StopPolling ==
  /\ calls' = calls + 1
  /\ StopPollingBody
  /\ lastEvent' = Ev("stopPolling")
  /\ NoteUserCall
  /\ UNCHANGED <<now, isEnabled, onSignalFound, onError, eaCache,
                 consecutiveErrors, timeouts, cycles, resolutionFailures>>

\* enableDatabaseConnections(), lines 304-307
EnableDatabaseConnections ==
  /\ calls' = calls + 1
  /\ isEnabled' = TRUE
  /\ lastEvent' = Ev("enable")
  /\ NoteUserCall
  /\ UNCHANGED <<now, intervalId, onSignalFound, onError, currentLicenseKey,
                 currentEA, lastPollTime, eaCache, consecutiveErrors,
                 intervals, timeouts, cycles, resolutionFailures>>

\* variant: disabling only flips the flag and leaves the session running
DisableDatabaseConnectionsFlagOnly ==
  /\ calls' = calls + 1
  /\ isEnabled' = FALSE
  /\ lastEvent' = Ev("disable")
  /\ NoteUserCall
  /\ UNCHANGED <<now, intervalId, onSignalFound, onError, currentLicenseKey,
                 currentEA, lastPollTime, eaCache, consecutiveErrors,
                 intervals, timeouts, cycles, resolutionFailures>>

\* disableDatabaseConnections(), lines 310-314
DisableDatabaseConnections ==
  /\ calls' = calls + 1
  /\ isEnabled' = FALSE
  /\ StopPollingBody
  /\ lastEvent' = Ev("disable")
  /\ NoteUserCall
  /\ UNCHANGED <<now, onSignalFound, onError, eaCache, consecutiveErrors,
                 timeouts, cycles, resolutionFailures>>

\* A tick of the interval set by startMockPolling, lines 361-380
MockTick(t, action) ==
  /\ t \in intervals /\ t.mode = "mock" /\ t.due <= now
  /\ intervals' = (intervals \ {t}) \cup {[t EXCEPT !.due = t.due + POLL_INTERVAL]}
  /\ lastEvent' = [Ev("mockTick") EXCEPT
                     !.key = t.key,
                     !.delivered = Deliver(<<Signal("MockEA", 0, action)>>, onSignalFound),
                     !.deliveredTo = onSignalFound,
                     !.deliveredAt = lastPollTime]
  /\ UNCHANGED <<progVars, now, timeouts, cycles, calls, resolutionFailures, suspended>>

\* A tick of the interval set by startRealPolling, lines 394-403: it starts
\* checkForNewSignals(licenseKey) with the key the closure captured
IntervalTick(t) ==
  /\ t \in intervals /\ t.mode = "real" /\ t.due <= now
  /\ LET r == BeginCycle(t.key, "tick", lastPollTime) IN
     /\ cycles' = r.cycles
     /\ currentEA' = r.currentEA
     /\ lastEvent' = BeginEvent("tick", t.key, "tick", r)
     /\ resolutionFailures' = IF r.lookup THEN resolutionFailures ELSE 0
  /\ intervals' = (intervals \ {t}) \cup {[t EXCEPT !.due = t.due + POLL_INTERVAL]}
  /\ UNCHANGED <<now, isEnabled, intervalId, onSignalFound, onError,
                 currentLicenseKey, lastPollTime, eaCache, consecutiveErrors,
                 timeouts, calls, suspended>>

\* The license-resolution response of cycle c arrives with response.ok and
\* data.eaId = ea (NULL: no EA found).  getEAFromLicense lines 459-464, then
\* checkForNewSignals lines 413-422 up to the signal fetch.
ResolveOk(c, ea) ==
  /\ BagIn(c, cycles) /\ c.pc = "resolving"
  /\ eaCache' = CacheSet(eaCache, c.key, ea, now)
  /\ resolutionFailures' = 0
  /\ IF NoEAFound(ea)
     THEN /\ cycles' = Take(cycles, c)
          /\ lastEvent' = [Ev("resolveOk") EXCEPT !.key = c.key, !.origin = c.origin]
          /\ UNCHANGED currentEA
     ELSE /\ cycles' = Put(Take(cycles, c),
                           FetchingCycle(c.key, c.origin, ea, lastPollTime))
          /\ currentEA' = ea
          /\ lastEvent' = [Ev("resolveOk") EXCEPT
                             !.key = c.key, !.origin = c.origin, !.fetch = TRUE,
                             !.fetchEA = ea, !.since = SinceOf(lastPollTime, now)]
  /\ UNCHANGED <<now, isEnabled, intervalId, onSignalFound, onError,
                 currentLicenseKey, lastPollTime, consecutiveErrors,
                 intervals, timeouts, calls, suspended>>

\* variant: a failed resolution counts toward the threshold and suspends
ResolveFailCounting(c) ==
  /\ BagIn(c, cycles) /\ c.pc = "resolving"
  /\ cycles' = Take(cycles, c)
  /\ consecutiveErrors' = consecutiveErrors + 1
  /\ resolutionFailures' = IF resolutionFailures < maxConsecutiveErrors
                           THEN resolutionFailures + 1 ELSE resolutionFailures
  /\ IF ShouldSuspend(consecutiveErrors + 1)
     THEN /\ StopPollingBody
          /\ timeouts' = Put(timeouts, now + COOLDOWN)
     ELSE UNCHANGED <<intervals, intervalId, currentLicenseKey, currentEA,
                      lastPollTime, timeouts>>
  /\ lastEvent' = [Ev("resolveFail") EXCEPT
                     !.key = c.key, !.origin = c.origin, !.failed = TRUE,
                     !.errorTo = IF ReportsError(c.origin) THEN onError ELSE Undefined]
  /\ UNCHANGED <<now, isEnabled, onSignalFound, onError, eaCache, calls, suspended>>

\* variant: a failed resolution is remembered in the cache as "no EA"
ResolveFailCaching(c) ==
  /\ BagIn(c, cycles) /\ c.pc = "resolving"
  /\ cycles' = Take(cycles, c)
  /\ eaCache' = CacheSet(eaCache, c.key, NULL, now)
  /\ resolutionFailures' = IF resolutionFailures < maxConsecutiveErrors
                           THEN resolutionFailures + 1 ELSE resolutionFailures
  /\ lastEvent' = [Ev("resolveFail") EXCEPT
                     !.key = c.key, !.origin = c.origin, !.failed = TRUE,
                     !.errorTo = IF ReportsError(c.origin) THEN onError ELSE Undefined]
  /\ UNCHANGED <<now, isEnabled, intervalId, onSignalFound, onError,
                 currentLicenseKey, currentEA, lastPollTime, consecutiveErrors,
                 intervals, timeouts, calls, suspended>>

\* The license-resolution request of cycle c fails (transport error or
\* !response.ok).  getEAFromLicense lines 456-458 and 465-468 rethrow,
\* checkForNewSignals lines 437-440 rethrow, and the caller in
\* startRealPolling catches.
ResolveFail(c) ==
  /\ BagIn(c, cycles) /\ c.pc = "resolving"
  /\ cycles' = Take(cycles, c)
  /\ resolutionFailures' = IF resolutionFailures < maxConsecutiveErrors
                           THEN resolutionFailures + 1 ELSE resolutionFailures
  /\ lastEvent' = [Ev("resolveFail") EXCEPT
                     !.key = c.key, !.origin = c.origin, !.failed = TRUE,
                     !.errorTo = IF ReportsError(c.origin) THEN onError ELSE Undefined]
  /\ UNCHANGED <<progVars, now, intervals, timeouts, calls, suspended>>

\* The signal-fetch response of cycle c arrives with response.ok and
\* data.signals = signals.  getNewSignalsForEA lines 491-496, then
\* checkForNewSignals lines 424-435.
FetchOk(c, signals) ==
  /\ BagIn(c, cycles) /\ c.pc = "fetching"
  /\ consecutiveErrors' = 0
  /\ lastEvent' = [Ev("fetchOk") EXCEPT
                     !.key = c.key, !.origin = c.origin, !.fetchEA = c.ea,
                     !.since = c.since, !.signals = signals,
                     !.delivered = Deliver(signals, onSignalFound),
                     !.deliveredTo = onSignalFound,
                     !.deliveredAt = lastPollTime]
  /\ lastPollTime' = now
  /\ cycles' = Take(cycles, c)
  /\ UNCHANGED <<now, isEnabled, intervalId, onSignalFound, onError,
                 currentLicenseKey, currentEA, eaCache, intervals, timeouts,
                 calls, resolutionFailures, suspended>>

\* variant: the watermark is advanced in a finally block, on failure too
FetchFailAdvancing(c) ==
  /\ BagIn(c, cycles) /\ c.pc = "fetching"
  /\ consecutiveErrors' = consecutiveErrors + 1
  /\ cycles' = Take(cycles, c)
  /\ IF ShouldSuspend(consecutiveErrors + 1)
     THEN /\ StopPollingBody
          /\ timeouts' = Put(timeouts, now + COOLDOWN)
          /\ suspended' = [active |-> TRUE, running |-> intervalId # NoTimer,
                           key |-> currentLicenseKey, sig |-> onSignalFound,
                           err |-> onError, userCalled |-> FALSE]
     ELSE /\ lastPollTime' = now
          /\ UNCHANGED <<intervals, intervalId, currentLicenseKey, currentEA,
                         timeouts, suspended>>
  /\ lastEvent' = [Ev("fetchFail") EXCEPT
                     !.key = c.key, !.origin = c.origin, !.fetchEA = c.ea,
                     !.since = c.since, !.failed = TRUE,
                     !.errorTo = IF ReportsError(c.origin) THEN onError ELSE Undefined,
                     !.suspend = ShouldSuspend(consecutiveErrors + 1)]
  /\ UNCHANGED <<now, isEnabled, onSignalFound, onError, eaCache, calls,
                 resolutionFailures>>

\* The signal fetch of cycle c fails (transport error, !response.ok or the
\* 10 s abort).  getNewSignalsForEA lines 497-517, then the rethrow of
\* checkForNewSignals and the catch of the caller in startRealPolling.
FetchFail(c) ==
  /\ BagIn(c, cycles) /\ c.pc = "fetching"
  /\ consecutiveErrors' = consecutiveErrors + 1
  /\ cycles' = Take(cycles, c)
  /\ IF ShouldSuspend(consecutiveErrors + 1)
     THEN /\ StopPollingBody
          /\ timeouts' = Put(timeouts, now + COOLDOWN)
          /\ suspended' = [active |-> TRUE, running |-> intervalId # NoTimer,
                           key |-> currentLicenseKey, sig |-> onSignalFound,
                           err |-> onError, userCalled |-> FALSE]
     ELSE UNCHANGED <<intervals, intervalId, currentLicenseKey, currentEA,
                      lastPollTime, timeouts, suspended>>
  /\ lastEvent' = [Ev("fetchFail") EXCEPT
                     !.key = c.key, !.origin = c.origin, !.fetchEA = c.ea,
                     !.since = c.since, !.failed = TRUE,
                     !.errorTo = IF ReportsError(c.origin) THEN onError ELSE Undefined,
                     !.suspend = ShouldSuspend(consecutiveErrors + 1)]
  /\ UNCHANGED <<now, isEnabled, onSignalFound, onError, eaCache, calls,
                 resolutionFailures>>

\* The cooldown timeout set at line 507 fires: lines 508-512
ResumeFire(due) ==
  /\ BagIn(due, timeouts) /\ due <= now
  /\ timeouts' = Take(timeouts, due)
  /\ IF currentLicenseKey # NULL
     THEN /\ consecutiveErrors' = 0
          /\ StartPollingBody("resume", currentLicenseKey, onSignalFound, onError)
     ELSE /\ lastEvent' = Ev("resume")
          /\ UNCHANGED <<intervalId, onSignalFound, onError, currentLicenseKey,
                         lastPollTime, currentEA, intervals, cycles,
                         consecutiveErrors, resolutionFailures>>
  /\ suspended' = [suspended EXCEPT !.active = FALSE]
  /\ UNCHANGED <<now, isEnabled, eaCache, calls>>

\* Time passes.  Timers fire when they are due, so the clock does not move
\* past a due timer, and a signal fetch does not outlive its
\* AbortSignal.timeout (line 484).  The clock is started by the application's
\* first call: before it the poller has nothing scheduled.
Advance ==
  /\ calls > 0
  /\ \A t \in intervals : t.due > now
  /\ \A d \in BagToSet(timeouts) : d > now
  /\ \A c \in BagToSet(cycles) :
       c.pc = "fetching" => (now + ClockStep) - c.issued < REQUEST_TIMEOUT
  /\ now' = now + ClockStep
  /\ lastEvent' = Ev("advance")
  /\ UNCHANGED <<progVars, intervals, timeouts, cycles, calls,
                 resolutionFailures, suspended>>

----------------------------------------------------------------------------
\* app/api/_db.ts: the query-result cache

\* Bounds of the exploration of the database module
MaxDbTicks == 4    \* clock steps of the server process
MaxDbCalls == 3    \* calls made to the module
MaxQueries == 2    \* executeQuery invocations in flight at once

\* The server's clock moves in quanta of the default TTL
DbClockStep == CACHE_TTL

\* cache keys the callers use; a key is any string, the empty one included
DbKeys == {"", "a", "b"}
\* rows a query returns
Rows == {"rows1", "rows2"}
\* the ttl arguments the callers pass (CACHE_TTL is the default)
Ttls == {CACHE_TTL, 2 * CACHE_TTL}

NoPool    == 0
NoPromise == 0

\* JavaScript truthiness of a string or undefined: if (cacheKey), if (firstKey)
Truthy(str) == str # "" /\ str # Undefined

Entry(key, data, t) == [key |-> key, data |-> data, timestamp |-> t]

\* Map operations on the insertion-ordered list of entries
MapHas(c, key) == \E i \in 1..Len(c) : c[i].key = key
MapIndex(c, key) == CHOOSE i \in 1..Len(c) : c[i].key = key
MapGet(c, key) == c[MapIndex(c, key)]
\* Map.set keeps the position of a key that is present and appends a new one
MapSet(c, key, e) ==
  IF MapHas(c, key) THEN [c EXCEPT ![MapIndex(c, key)] = e] ELSE Append(c, e)
MapDelete(c, key) == SelectSeq(c, LAMBDA e : e.key # key)

\* variant: an entry is still served at the age of exactly ttl
IsFreshInclusive(e, ttl, t) == (t - e.timestamp) <= ttl

\* getCachedData, line 25: (Date.now() - entry.timestamp) < ttl
IsFresh(e, ttl, t) == (t - e.timestamp) < ttl

\* getCachedData(key, ttl), lines 23-33: the value returned
GetResult(c, key, ttl, t) ==
  IF MapHas(c, key) /\ IsFresh(MapGet(c, key), ttl, t)
  THEN MapGet(c, key).data ELSE NULL

\* getCachedData(key, ttl), lines 23-33: the cache afterwards
CacheAfterGet(c, key, ttl, t) ==
  IF MapHas(c, key) /\ IsFresh(MapGet(c, key), ttl, t)
  THEN c
  ELSE IF MapHas(c, key) THEN MapDelete(c, key) ELSE c

\* setCachedData(key, data), lines 36-46: the cache afterwards
CacheAfterSet(c, key, data, t) ==
  LET c1 == MapSet(c, key, Entry(key, data, t)) IN
  IF Len(c1) > MAX_CACHE_ENTRIES
  THEN LET firstKey == c1[1].key IN
       IF Truthy(firstKey) THEN MapDelete(c1, firstKey) ELSE c1
  ELSE c1

\* Observation record of one step of the database module
NoDbEvent ==
  [type     |-> "init",    \* which function or continuation ran
   key      |-> NULL,      \* the cache key argument
   ttl      |-> 0,         \* the ttl argument
   data     |-> NULL,      \* the data argument of setCachedData, the rows of a query
   result   |-> NULL,      \* what getCachedData returned
   settled  |-> {},        \* the executeQuery invocations that settled in this step
   got      |-> {}]        \* <<query, pool>>: the getPool() calls that resolved in this step

DbEv(type) == [NoDbEvent EXCEPT !.type = type]

\* a cache that callers have filled within the first millisecond: `first'
\* was stored first, then keys that the explored calls do not use again
Prefilled(first) ==
  <<Entry(first, "rows1", 0)>> \o
  [i \in 1..(MAX_CACHE_ENTRIES + 1 - Cardinality(DbKeys)) |->
     Entry("f" \o ToString(i), "rows1", 0)]

InitialCaches == {<< >>} \cup {Prefilled(k) : k \in DbKeys}

\* The module as loaded (lines 19, 49, 59, 60), with cache c already filled
InitDbWith(c) ==
  /\ dbNow = 0
  /\ cache = c
  /\ cleanupDue = CLEANUP_INTERVAL
  /\ pool = NoPool
  /\ poolInitPromise = NoPromise
  /\ promises = << >>
  /\ queries = {}
  /\ ending = EmptyBag
  /\ leased = EmptyBag
  /\ gotPools = {}
  /\ closes = 0
  /\ dbEvent = NoDbEvent
  /\ stored = [k \in DbKeys |-> IF MapHas(c, k) THEN MapGet(c, k).data ELSE NULL]
  /\ dbCalls = 0

poolVars == <<pool, poolInitPromise, promises, queries, ending, leased,
              gotPools, closes>>

\* A route calls getCachedData(key, ttl)
GetCachedData(key, ttl) ==
  /\ dbCalls' = dbCalls + 1
  /\ cache' = CacheAfterGet(cache, key, ttl, dbNow)
  /\ dbEvent' = [DbEv("getCachedData") EXCEPT
                   !.key = key, !.ttl = ttl,
                   !.result = GetResult(cache, key, ttl, dbNow)]
  /\ UNCHANGED <<dbNow, cleanupDue, stored, poolVars>>

\* A route calls setCachedData(key, data)
SetCachedData(key, data) ==
  /\ dbCalls' = dbCalls + 1
  /\ cache' = CacheAfterSet(cache, key, data, dbNow)
  /\ stored' = [stored EXCEPT ![key] = data]
  /\ dbEvent' = [DbEv("setCachedData") EXCEPT !.key = key, !.data = data]
  /\ UNCHANGED <<dbNow, cleanupDue, poolVars>>

\* A tick of the cleanup interval, lines 49-56
CleanupTick ==
  /\ cleanupDue <= dbNow
  /\ cache' = SelectSeq(cache, LAMBDA e : ~(dbNow - e.timestamp > CACHE_TTL * 2))
  /\ cleanupDue' = cleanupDue + CLEANUP_INTERVAL
  /\ dbEvent' = DbEv("cleanup")
  /\ UNCHANGED <<dbNow, stored, dbCalls, poolVars>>

\* Time passes in the server process; the cleanup timer fires when it is
\* due, and a getConnection settles within its acquireTimeout (line 95)
DbAdvance ==
  /\ cleanupDue > dbNow
  /\ \A q \in queries : q.pc # "getConnection"
  /\ dbNow' = dbNow + DbClockStep
  /\ dbEvent' = DbEv("advance")
  /\ UNCHANGED <<cache, cleanupDue, stored, dbCalls, poolVars>>

----------------------------------------------------------------------------
\* app/api/_db.ts: the connection pool and executeQuery

\* the options the routes pass to executeQuery: no caching, caching under a
\* key, caching asked for with an empty key
QueryOptions ==
  {[cache |-> FALSE, cacheKey |-> Undefined, cacheTTL |-> CACHE_TTL],
   [cache |-> TRUE,  cacheKey |-> "a",       cacheTTL |-> CACHE_TTL],
   [cache |-> TRUE,  cacheKey |-> "",        cacheTTL |-> CACHE_TTL]}

\* executeQuery, lines 143 and 158: if (useCache && cacheKey)
UsesCache(o) == o.cache /\ Truthy(o.cacheKey)

\* an executeQuery invocation that is waiting: for the init promise
\* ("getPool"), for a connection ("getConnection") or for the rows ("execute")
Query(id, o, pc, promise, p) ==
  [id |-> id, opts |-> o, pc |-> pc, promise |-> promise, pool |-> p,
   acquired |-> IF pc = "execute" THEN 1 ELSE 0, released |-> 0]

FreshQueryId == CHOOSE i \in 1..(Cardinality(queries) + 1) :
                  \A q \in queries : q.id # i

\* how an executeQuery invocation ended, and the connections it had acquired
\* and released by then
Settled(id, outcome, acquired, released) ==
  [id |-> id, outcome |-> outcome, acquired |-> acquired, released |-> released]

Created == {i \in 1..Len(promises) : promises[i].state = "fulfilled"}
Rejected == {i \in 1..Len(promises) : promises[i].state = "rejected"}

\* variant: getPool does not look at the init promise
HasInitPromiseIgnored(p) == FALSE

\* getPool, line 70: if (poolInitPromise)
HasInitPromise(p) == p # NoPromise

\* A route calls executeQuery(query, params, o): lines 135-151 up to the first
\* pending await, with getPool (63-132) up to its dynamic import inlined
ExecuteQuery(o) ==
  LET id     == FreshQueryId
      cached == IF UsesCache(o)
                THEN GetResult(cache, o.cacheKey, o.cacheTTL, dbNow) ELSE NULL
  IN
  /\ dbCalls' = dbCalls + 1
  /\ cache' = IF UsesCache(o)
              THEN CacheAfterGet(cache, o.cacheKey, o.cacheTTL, dbNow) ELSE cache
  /\ IF cached # NULL
     THEN /\ dbEvent' = [DbEv("executeQuery") EXCEPT
                           !.key = o.cacheKey, !.result = cached,
                           !.settled = {Settled(id, "cached", 0, 0)}]
          /\ UNCHANGED <<pool, poolInitPromise, promises, queries, gotPools>>
     ELSE IF pool # NoPool
     THEN /\ queries' = queries \cup {Query(id, o, "getConnection", NoPromise, pool)}
          /\ gotPools' = gotPools \cup {pool}
          /\ dbEvent' = [DbEv("executeQuery") EXCEPT
                           !.key = o.cacheKey, !.got = {<<id, pool>>}]
          /\ UNCHANGED <<pool, poolInitPromise, promises>>
     ELSE IF HasInitPromise(poolInitPromise)
     THEN LET pr == promises[poolInitPromise] IN
          /\ IF pr.state = "fulfilled"
             THEN /\ queries' = queries \cup
                      {Query(id, o, "getConnection", NoPromise, pr.pool)}
                  /\ gotPools' = gotPools \cup {pr.pool}
                  /\ dbEvent' = [DbEv("executeQuery") EXCEPT
                                   !.key = o.cacheKey, !.got = {<<id, pr.pool>>}]
             ELSE IF pr.state = "pending"
             THEN /\ queries' = queries \cup
                      {Query(id, o, "getPool", poolInitPromise, NoPool)}
                  /\ dbEvent' = [DbEv("executeQuery") EXCEPT !.key = o.cacheKey]
                  /\ UNCHANGED gotPools
             ELSE /\ dbEvent' = [DbEv("executeQuery") EXCEPT
                                   !.key = o.cacheKey,
                                   !.settled = {Settled(id, "error", 0, 0)}]
                  /\ UNCHANGED <<queries, gotPools>>
          /\ UNCHANGED <<pool, poolInitPromise, promises>>
     ELSE /\ promises' = Append(promises, [state |-> "pending", pool |-> NoPool])
          /\ poolInitPromise' = Len(promises) + 1
          /\ queries' = queries \cup
                {Query(id, o, "getPool", Len(promises) + 1, NoPool)}
          /\ dbEvent' = [DbEv("executeQuery") EXCEPT !.key = o.cacheKey]
          /\ UNCHANGED <<pool, gotPools>>
  /\ UNCHANGED <<dbNow, cleanupDue, stored, ending, leased, closes>>

\* the executeQuery invocations awaiting init promise i
Waiters(i) == {q \in queries : q.pc = "getPool" /\ q.promise = i}

\* The dynamic import of init promise i resolves: lines 78-123, then the
\* continuations of the getPool() callers awaiting it up to pool.getConnection()
InitOk(i) ==
  /\ i \in 1..Len(promises) /\ promises[i].state = "pending"
  /\ pool' = i
  /\ promises' = [promises EXCEPT ![i] = [state |-> "fulfilled", pool |-> i]]
  /\ queries' = (queries \ Waiters(i)) \cup
                {Query(q.id, q.opts, "getConnection", NoPromise, i) : q \in Waiters(i)}
  /\ gotPools' = IF Waiters(i) # {} THEN gotPools \cup {i} ELSE gotPools
  /\ dbEvent' = [DbEv("initOk") EXCEPT !.got = {<<q.id, i>> : q \in Waiters(i)}]
  /\ UNCHANGED <<dbNow, cache, cleanupDue, stored, dbCalls, poolInitPromise,
                 ending, leased, closes>>

\* The dynamic import (or createPool) of init promise i fails: lines 124-128;
\* every executeQuery awaiting it rejects before it has a connection
InitFail(i) ==
  /\ i \in 1..Len(promises) /\ promises[i].state = "pending"
  /\ poolInitPromise' = NoPromise
  /\ promises' = [promises EXCEPT ![i] = [state |-> "rejected", pool |-> NoPool]]
  /\ queries' = queries \ Waiters(i)
  /\ dbEvent' = [DbEv("initFail") EXCEPT
                   !.settled = {Settled(q.id, "error", q.acquired, q.released) :
                                  q \in Waiters(i)}]
  /\ UNCHANGED <<dbNow, cache, cleanupDue, stored, dbCalls, pool, ending,
                 leased, gotPools, closes>>

\* pool.getConnection() of q resolves: line 151, up to conn.execute (154)
ConnectOk(q) ==
  /\ q \in queries /\ q.pc = "getConnection"
  /\ queries' = (queries \ {q}) \cup
                {Query(q.id, q.opts, "execute", NoPromise, q.pool)}
  /\ leased' = Put(leased, q.pool)
  /\ dbEvent' = DbEv("connectOk")
  /\ UNCHANGED <<dbNow, cache, cleanupDue, stored, dbCalls, pool,
                 poolInitPromise, promises, ending, gotPools, closes>>

\* pool.getConnection() of q rejects (queue limit, acquire timeout): line 151
\* throws outside the try, and executeQuery rejects
ConnectFail(q) ==
  /\ q \in queries /\ q.pc = "getConnection"
  /\ queries' = queries \ {q}
  /\ dbEvent' = [DbEv("connectFail") EXCEPT
                   !.settled = {Settled(q.id, "error", q.acquired, q.released)}]
  /\ UNCHANGED <<dbNow, cache, cleanupDue, stored, dbCalls, pool,
                 poolInitPromise, promises, ending, leased, gotPools, closes>>

\* conn.execute of q resolves with rows: lines 154-166
ExecuteOk(q, rows) ==
  /\ q \in queries /\ q.pc = "execute"
  /\ IF UsesCache(q.opts)
     THEN /\ cache' = CacheAfterSet(cache, q.opts.cacheKey, rows, dbNow)
          /\ stored' = [stored EXCEPT ![q.opts.cacheKey] = rows]
     ELSE UNCHANGED <<cache, stored>>
  /\ leased' = Take(leased, q.pool)
  /\ queries' = queries \ {q}
  /\ dbEvent' = [DbEv("executeOk") EXCEPT
                   !.key = q.opts.cacheKey, !.data = rows,
                   !.settled = {Settled(q.id, "rows", q.acquired, q.released + 1)}]
  /\ UNCHANGED <<dbNow, cleanupDue, dbCalls, pool, poolInitPromise, promises,
                 ending, gotPools, closes>>

\* variant: the connection is released after the query, not in a finally
ExecuteFailLeaking(q) ==
  /\ q \in queries /\ q.pc = "execute"
  /\ queries' = queries \ {q}
  /\ dbEvent' = [DbEv("executeFail") EXCEPT
                   !.key = q.opts.cacheKey,
                   !.settled = {Settled(q.id, "error", q.acquired, q.released)}]
  /\ UNCHANGED <<dbNow, cache, cleanupDue, stored, dbCalls, pool,
                 poolInitPromise, promises, ending, leased, gotPools, closes>>

\* conn.execute of q rejects: the finally of lines 163-166 releases the
\* connection and executeQuery rejects
ExecuteFail(q) ==
  /\ q \in queries /\ q.pc = "execute"
  /\ leased' = Take(leased, q.pool)
  /\ queries' = queries \ {q}
  /\ dbEvent' = [DbEv("executeFail") EXCEPT
                   !.key = q.opts.cacheKey,
                   !.settled = {Settled(q.id, "error", q.acquired, q.released + 1)}]
  /\ UNCHANGED <<dbNow, cache, cleanupDue, stored, dbCalls, pool,
                 poolInitPromise, promises, ending, gotPools, closes>>

\* closePool() is called (shutdown signal): lines 170-173 up to pool.end()
ClosePool ==
  /\ dbCalls' = dbCalls + 1
  /\ closes' = closes + 1
  /\ ending' = IF pool # NoPool THEN Put(ending, pool) ELSE ending
  /\ dbEvent' = DbEv("closePool")
  /\ UNCHANGED <<dbNow, cache, cleanupDue, stored, pool, poolInitPromise,
                 promises, queries, leased, gotPools>>

\* pool.end() of a closePool resolves: lines 174-176
ClosePoolEnded(p) ==
  /\ BagIn(p, ending)
  /\ ending' = Take(ending, p)
  /\ pool' = NoPool
  /\ poolInitPromise' = NoPromise
  /\ dbEvent' = DbEv("closeEnded")
  /\ UNCHANGED <<dbNow, cache, cleanupDue, stored, dbCalls, promises, queries,
                 leased, gotPools, closes>>

\* pool.end() of a closePool rejects: lines 177-179 only log
ClosePoolFailed(p) ==
  /\ BagIn(p, ending)
  /\ ending' = Take(ending, p)
  /\ dbEvent' = DbEv("closeFailed")
  /\ UNCHANGED <<dbNow, cache, cleanupDue, stored, dbCalls, pool,
                 poolInitPromise, promises, queries, leased, gotPools, closes>>

----------------------------------------------------------------------------
\* The poller as constructed and the database module as loaded
Init == InitPoller /\ InitDbWith(<< >>)

\* The application may call: it makes at most maxCalls calls, during the
\* first window poll intervals
MayCall(maxCalls, window) == calls < maxCalls /\ now <= window * ClockStep

\* One task of the event loop, within the part of the behaviours that is
\* explored: bounded calls, at most maxCycles cycles in flight, and a clock
\* that runs for MaxTicks poll intervals
Step(maxCalls, window, maxCycles) ==
  \/ /\ MayCall(maxCalls, window)
     /\ \E key \in LicenseKeys, cb \in CallbackPairs : StartPolling(key, cb)
     /\ InFlight' <= maxCycles
     /\ UNCHANGED dbVars
  \/ MayCall(maxCalls, window) /\ StopPolling /\ UNCHANGED dbVars
  \/ MayCall(maxCalls, window) /\ EnableDatabaseConnections /\ UNCHANGED dbVars
  \/ MayCall(maxCalls, window) /\ DisableDatabaseConnections /\ UNCHANGED dbVars
  \/ (\E t \in intervals, a \in Actions : MockTick(t, a)) /\ UNCHANGED dbVars
  \/ (\E t \in intervals : IntervalTick(t)) /\ InFlight' <= maxCycles /\ UNCHANGED dbVars
  \/ (\E c \in BagToSet(cycles) : \E ea \in {EAOf(c.key), NULL} : ResolveOk(c, ea))
     /\ UNCHANGED dbVars
  \/ (\E c \in BagToSet(cycles) : ResolveFail(c)) /\ UNCHANGED dbVars
  \/ (\E c \in BagToSet(cycles) : \E signals \in SignalLists(c.ea) : FetchOk(c, signals))
     /\ UNCHANGED dbVars
  \/ (\E c \in BagToSet(cycles) : FetchFail(c)) /\ UNCHANGED dbVars
  \/ (\E due \in BagToSet(timeouts) : ResumeFire(due)) /\ InFlight' <= maxCycles
     /\ UNCHANGED dbVars
  \/ now < MaxTicks * ClockStep /\ Advance /\ UNCHANGED dbVars

Next == Step(MaxCalls, CallWindow, MaxCycles)

Spec == Init /\ [][Next]_vars

NextRestart == Step(RestartCalls, RestartWindow, RestartCycles)

SpecRestart == Init /\ [][NextRestart]_vars

\* The routes' direct use of the query-result cache, from a cache that is
\* empty or nearly full
InitCache == InitPoller /\ \E c \in InitialCaches : InitDbWith(c)

NextCache ==
  \/ /\ dbCalls < MaxDbCalls
     /\ \E key \in DbKeys, ttl \in Ttls : GetCachedData(key, ttl)
     /\ UNCHANGED pollerVars
  \/ /\ dbCalls < MaxDbCalls
     /\ \E key \in DbKeys, data \in Rows : SetCachedData(key, data)
     /\ UNCHANGED pollerVars
  \/ CleanupTick /\ UNCHANGED pollerVars
  \/ dbNow < MaxDbTicks * DbClockStep /\ DbAdvance /\ UNCHANGED pollerVars

SpecCache == InitCache /\ [][NextCache]_vars

\* Routes running queries through the pool, and shutdown signals
NextPool ==
  \/ /\ dbCalls < MaxDbCalls /\ Cardinality(queries) < MaxQueries
     /\ \E o \in QueryOptions : ExecuteQuery(o)
     /\ UNCHANGED pollerVars
  \/ dbCalls < MaxDbCalls /\ ClosePool /\ UNCHANGED pollerVars
  \/ (\E i \in 1..Len(promises) : InitOk(i)) /\ UNCHANGED pollerVars
  \/ (\E i \in 1..Len(promises) : InitFail(i)) /\ UNCHANGED pollerVars
  \/ (\E q \in queries : ConnectOk(q)) /\ UNCHANGED pollerVars
  \/ (\E q \in queries : ConnectFail(q)) /\ UNCHANGED pollerVars
  \/ (\E q \in queries, rows \in Rows : ExecuteOk(q, rows)) /\ UNCHANGED pollerVars
  \/ (\E q \in queries : ExecuteFail(q)) /\ UNCHANGED pollerVars
  \/ (\E p \in BagToSet(ending) : ClosePoolEnded(p)) /\ UNCHANGED pollerVars
  \/ (\E p \in BagToSet(ending) : ClosePoolFailed(p)) /\ UNCHANGED pollerVars
  \/ CleanupTick /\ UNCHANGED pollerVars
  \/ dbNow < MaxDbTicks * DbClockStep /\ DbAdvance /\ UNCHANGED pollerVars

SpecPool == Init /\ [][NextPool]_vars

TypeOK ==
  /\ now \in Nat
  /\ isEnabled \in BOOLEAN
  /\ intervalId \in Nat
  /\ consecutiveErrors \in Nat
  /\ lastPollTime \in Nat \cup {NoTime}

----------------------------------------------------------------------------
\* Claims

\* The step just taken ran handler `type'
Did(type) == lastEvent'.type = type

\* C1: after 3 consecutive signal-fetch failures in a running session the
\* poller issues no cycle until the cooldown timeout fires, and when it fires
\* (the application not having called in between) polling runs again with the
\* license key and callbacks of the suspended session and with the
\* consecutive-error counter at zero.
C1_ResumesAfterCooldown ==
  [][ (suspended.active /\ suspended.running /\ ~suspended.userCalled)
      => /\ (lastEvent'.began /\ calls' = calls) => Did("resume")
         /\ Did("resume") =>
              /\ intervalId' # NoTimer
              /\ currentLicenseKey' = suspended.key
              /\ onSignalFound' = suspended.sig
              /\ onError' = suspended.err
              /\ consecutiveErrors' = 0 ]_vars

\* C2: a cycle begun for a license key other than the one of the session now
\* running (stopPolling, then startPolling with a different key, while the
\* cycle was in flight) delivers nothing to onSignalFound and writes neither
\* the EA id nor the watermark.
C2_NoStaleResults ==
  [][ ( /\ Did("resolveOk") \/ Did("fetchOk")
        /\ currentLicenseKey # NULL
        /\ lastEvent'.key # currentLicenseKey )
      => /\ lastEvent'.delivered = << >>
         /\ currentEA' = currentEA
         /\ lastPollTime' = lastPollTime ]_vars

\* C3: startPolling called while a session is running changes neither the
\* license key, the callbacks, the watermark nor the timer, and no state has
\* more than one live recurring timer.
C3_StartIsIdempotent ==
  [][ /\ Cardinality(intervals') <= 1
      /\ (Did("startPolling") /\ intervalId # NoTimer)
         => UNCHANGED <<currentLicenseKey, onSignalFound, onError, lastPollTime,
                        currentEA, intervalId, intervals, cycles>> ]_vars

\* a startPolling with another key was ignored by the running session
C3_Witness ==
  /\ lastEvent.type = "startPolling" /\ lastEvent.wasRunning
  /\ currentLicenseKey # NULL /\ lastEvent.key # currentLicenseKey
  /\ Cardinality(intervals) = 1

\* C4: stopPolling can be called in any state; right after it no recurring
\* timer is live, isRunning() is false and the EA id, the watermark and the
\* license key are cleared; a second call changes nothing.
C4_StopClearsSession ==
  [][ Did("stopPolling")
      => /\ intervalId' = NoTimer
         /\ intervals' = {}
         /\ currentEA' = NULL
         /\ lastPollTime' = NoTime
         /\ currentLicenseKey' = NULL
         /\ lastEvent.type = "stopPolling"
            => UNCHANGED <<progVars, intervals, timeouts, cycles>> ]_vars

\* stopPolling ended a running session that had resolved its EA
C4_Witness ==
  /\ lastEvent.type = "stopPolling" /\ lastEvent.wasRunning
  /\ InFlight > 0 /\ eaCache # << >>

SelfSuspended ==
  \/ BagCardinality(timeouts') > BagCardinality(timeouts)
  \/ /\ intervalId # NoTimer /\ intervalId' = NoTimer
     /\ ~(Did("stopPolling") \/ Did("disable"))

C7_PausesAfterThreeResolutionFailures ==
  (resolutionFailures >= maxConsecutiveErrors /\ lastEvent.type = "resolveFail"
   /\ lastEvent.wasRunning /\ calls = 1)
  => intervalId = NoTimer

\* C7 amended: a failed EA resolution does not pause the poller: it leaves the
\* consecutive-error counter, the license key and the timer as they were and
\* schedules no resume, so that after 3 such failures in a row the running
\* timer makes the next attempt within one poll interval, without a new call
\* to startPolling.
C7_ResolutionFailureKeepsPolling ==
  [][ Did("resolveFail")
      => /\ UNCHANGED <<intervalId, intervals, consecutiveErrors, timeouts,
                        currentLicenseKey>>
         /\ intervalId # NoTimer
            => \E t \in intervals' :
                 t.id = intervalId' /\ t.due <= now' + POLL_INTERVAL ]_vars

\* after three resolution failures in a row the timer made the 4th attempt
C7_Witness ==
  /\ resolutionFailures >= maxConsecutiveErrors
  /\ lastEvent.type = "tick" /\ lastEvent.lookup
  /\ calls = 1 /\ consecutiveErrors = 0

\* C8: every cycle that fails, in license resolution or in the signal fetch,
\* as the immediate first cycle or as a timer-driven one, results in an
\* invocation of the onError the application supplied.
C8_EveryFailureReported ==
  (lastEvent.failed /\ onError # Undefined) => lastEvent.errorTo = onError

\* C9: when a fetch succeeds with signals s1..sn, onSignalFound (when the
\* application supplied one) is invoked exactly n times in that step, with
\* s1..sn unchanged and in that order, while the watermark still has its old
\* value; the watermark is advanced afterwards.
C9_DeliversInOrder ==
  [][ (Did("fetchOk") /\ onSignalFound # Undefined)
      => /\ lastEvent'.delivered = lastEvent'.signals
         /\ lastEvent'.deliveredTo = onSignalFound
         /\ lastEvent'.deliveredAt = lastPollTime
         /\ lastPollTime' = now ]_vars

\* a fetch returned BUY then SELL and both were delivered in that order
C9_Witness ==
  /\ lastEvent.type = "fetchOk" /\ lastEvent.deliveredTo # Undefined
  /\ Len(lastEvent.signals) = 2
  /\ Len(lastEvent.delivered) = 2
  /\ lastEvent.delivered[1].action = "BUY"
  /\ lastEvent.delivered[2].action = "SELL"
  /\ lastPollTime = now

\* C10: a cycle issues a license-resolution request for its key only when the
\* cache holds no entry for the key or the entry's age is 5 minutes or more,
\* and a cycle that begins when the entry's age has reached 5 minutes issues
\* one.
C10_CacheWindow ==
  [][ LET key == lastEvent'.key IN
      /\ (lastEvent'.lookup /\ key \in DOMAIN eaCache)
         => now - eaCache[key].timestamp >= 300000
      /\ (lastEvent'.began /\ key \in DOMAIN eaCache
          /\ now - eaCache[key].timestamp >= 300000)
         => lastEvent'.lookup ]_vars

\* a timer-driven cycle looked the key up again when its entry turned 5 minutes old
C10_Witness ==
  /\ lastEvent.type = "tick" /\ lastEvent.lookup
  /\ lastEvent.key \in DOMAIN eaCache
  /\ now - eaCache[lastEvent.key].timestamp = EA_CACHE_TTL

\* The cycle of the step just taken learnt that its license key has no EA:
\* from the service's answer, or from a fresh cache entry holding null
FoundNoEA ==
  LET key == lastEvent'.key IN
  \/ /\ Did("resolveOk")
     /\ key \in DOMAIN eaCache' /\ eaCache'[key].ea = NULL
  \/ /\ Did("tick")
     /\ key \in DOMAIN eaCache /\ eaCache[key].ea = NULL
     /\ now - eaCache[key].timestamp < EA_CACHE_TTL

\* C11: a cycle that finds no EA for its license key ends there without
\* error: it issues no signal fetch (and leaves no request pending), invokes
\* neither onError nor onSignalFound, and leaves the watermark, the
\* consecutive-error counter, the timer and the pending resumes unchanged.
C11_NoEAAbandonsQuietly ==
  [][ FoundNoEA
      => /\ ~lastEvent'.fetch
         /\ ~lastEvent'.failed
         /\ lastEvent'.errorTo = Undefined
         /\ lastEvent'.delivered = << >>
         /\ lastEvent'.deliveredTo = Undefined
         /\ InFlight' <= InFlight
         /\ \A c \in BagToSet(cycles') : CopiesIn(c, cycles') <= CopiesIn(c, cycles)
         /\ {t.id : t \in intervals'} = {t.id : t \in intervals}
         /\ UNCHANGED <<lastPollTime, consecutiveErrors, currentEA, intervalId,
                        timeouts>> ]_vars

\* after a fetch failure, a later lookup of a running session with an onError
\* answered "no EA": the counter kept its value and nothing was reported
C11_Witness ==
  /\ lastEvent.type = "resolveOk" /\ ~lastEvent.fetch
  /\ eaCache[lastEvent.key].ea = NULL
  /\ intervalId # NoTimer /\ onError # Undefined
  /\ consecutiveErrors > 0 /\ InFlight = 0

\* C12: when the license-resolution request of a cycle fails, the cycle ends
\* with the failure handed to its caller (the timer's handler passes it to
\* onError), the watermark keeps its value, no signal fetch is issued and the
\* EA resolution cache is left as it was.
C12_ResolutionFailurePropagates ==
  [][ Did("resolveFail")
      => /\ lastEvent'.failed
         /\ lastEvent'.origin = "tick" => lastEvent'.errorTo = onError
         /\ ~lastEvent'.fetch /\ ~lastEvent'.lookup
         /\ InFlight' = InFlight - 1
         /\ \A c \in BagToSet(cycles') : CopiesIn(c, cycles') <= CopiesIn(c, cycles)
         /\ lastEvent'.delivered = << >>
         /\ UNCHANGED <<lastPollTime, eaCache, currentEA>> ]_vars

\* a timer-driven lookup failed after the key's cache entry had expired: the
\* stale entry is still there, and the failure went to onError
C12_Witness ==
  /\ lastEvent.type = "resolveFail" /\ lastEvent.origin = "tick"
  /\ lastEvent.errorTo # Undefined
  /\ lastEvent.key \in DOMAIN eaCache
  /\ now - eaCache[lastEvent.key].timestamp >= EA_CACHE_TTL
  /\ lastPollTime # NoTime

\* C13: disableDatabaseConnections() leaves no session active (no live timer,
\* isRunning() false); while connections are disabled every live timer is a
\* mock one, mock timers are created only while connections are disabled, and
\* neither the startPolling (or resume) that starts a session while disabled
\* nor any tick of its timer begins a cycle or issues a license-resolution or
\* signal-fetch request.
C13_DisabledSessionIssuesNoRequest ==
  [][ /\ Did("disable")
         => /\ ~isEnabled'
            /\ intervalId' = NoTimer
            /\ intervals' = {}
      /\ ~isEnabled' => \A t \in intervals' : t.mode = "mock"
      /\ \A t \in intervals' :
           t.mode = "mock" => (~isEnabled \/ \E u \in intervals : u.id = t.id)
      /\ ( \/ (Did("startPolling") \/ Did("resume")) /\ ~isEnabled
           \/ Did("mockTick") )
         => /\ ~lastEvent'.began
            /\ ~lastEvent'.lookup
            /\ ~lastEvent'.fetch
            /\ cycles' = cycles ]_vars

\* a session started after disableDatabaseConnections() runs on the mock
\* timer: its tick handed a mock signal to the callback and nothing is in flight
C13_Witness ==
  /\ lastEvent.type = "mockTick" /\ ~isEnabled
  /\ lastEvent.delivered # << >>
  /\ calls = 2 /\ InFlight = 0
  /\ intervalId # NoTimer

\* C17: every signal-fetch request is issued while a session holds a
\* watermark, and its `since` parameter is that watermark.
C17_SinceIsWatermark ==
  [][ lastEvent'.fetch
      => /\ lastPollTime' # NoTime
         /\ lastEvent'.since = lastPollTime' ]_vars

\* C18: no step begins a cycle (a timer tick, or the first cycle of
\* startPolling or of a resume) while a cycle is waiting for a response.
C18_OneCycleAtATime ==
  [][ lastEvent'.began => InFlight = 0 ]_vars

\* C19: an EA cache entry younger than the 5-minute TTL is neither removed
\* nor changed by any step.
C19_CacheEntryImmutableWithinTTL ==
  [][ \A k \in DOMAIN eaCache :
        now - eaCache[k].timestamp < EA_CACHE_TTL
        => k \in DOMAIN eaCache' /\ eaCache'[k] = eaCache[k] ]_vars

\* C21: in every reachable state the consecutive-error counter is between 0
\* and 3.
C21_CounterWithinThreshold == consecutiveErrors \in 0..3

\* C22: while the poller is stopped (stopPolling() has cleared the timer and
\* no startPolling, by the application or by a resume, is being run) no step
\* invokes onSignalFound or onError, and the EA id and the watermark stay
\* cleared.
C22_NothingAfterStop ==
  [][ (intervalId = NoTimer /\ ~Did("startPolling") /\ ~Did("resume"))
      => /\ lastEvent'.delivered = << >>
         /\ lastEvent'.errorTo = Undefined
         /\ currentEA' = NULL
         /\ lastPollTime' = NoTime ]_vars

\* C23: a resume timer that fires while a session is running (one the
\* application started after the suspension) changes nothing of the poller,
\* in particular not the consecutive-error counter; and at most one resume
\* timer is pending in any state.
C23_ResumeLeavesNewSessionAlone ==
  [][ /\ (Did("resume") /\ intervalId # NoTimer)
         => UNCHANGED <<progVars, intervals, cycles>>
      /\ BagCardinality(timeouts') <= 1 ]_vars

----------------------------------------------------------------------------
\* Claims about the database module

\* C14: as long as no initialization has failed and closePool() has not been
\* called, at most one initialization has been started, at most one pool has
\* been created, and every getPool() call that has resolved has resolved to
\* that pool, however the calls interleave with the initialization.
C14_PoolCreatedOnce ==
  (closes = 0 /\ Rejected = {})
  => /\ Len(promises) <= 1
     /\ Cardinality(Created) <= 1
     /\ Cardinality(gotPools) <= 1
     /\ \A p \in gotPools : p = pool /\ p \in Created
     /\ \A q \in queries : q.pc # "getPool" => q.pool = pool

\* two getPool() calls made while the pool was initializing resolved together,
\* to the one pool
C14_Witness ==
  /\ dbEvent.type = "initOk" /\ Cardinality(dbEvent.got) = 2
  /\ closes = 0 /\ Rejected = {}
  /\ gotPools = {pool} /\ pool # NoPool

\* C15: an executeQuery that settles has released every connection it
\* acquired exactly once (and one that returned rows had acquired one); while
\* it is pending it holds a connection only during conn.execute; so the
\* connections checked out of each pool are those of the queries executing.
C15_ConnectionsReleased ==
  /\ \A r \in dbEvent.settled :
       /\ r.acquired <= 1
       /\ r.released = r.acquired
       /\ r.outcome = "rows" => r.acquired = 1
  /\ \A q \in queries :
       /\ q.released = 0
       /\ q.acquired = IF q.pc = "execute" THEN 1 ELSE 0
  /\ \A p \in 1..Len(promises) :
       CopiesIn(p, leased) =
         Cardinality({q \in queries : q.pc = "execute" /\ q.pool = p})
  /\ BagToSet(leased) \subseteq 1..Len(promises)

\* a query failed and gave its connection back while another query still
\* holds one
C15_Witness ==
  /\ dbEvent.type = "executeFail"
  /\ \E r \in dbEvent.settled : r.acquired = 1 /\ r.released = 1
  /\ BagCardinality(leased) = 1
  /\ \E q \in queries : q.pc = "execute"

\* C16: whatever setCachedData and getCachedData calls were made, with
\* whatever keys, the query-result cache holds at most 1000 entries.
C16_CacheAtMostThousand == Len(cache) <= 1000

\* C20: getCachedData(key, ttl) returns the data last passed to setCachedData
\* for key exactly when the cache holds an entry for key whose age is
\* strictly less than ttl, and then leaves the cache as it is; otherwise it
\* returns null and the cache afterwards is the cache before without the
\* entry of key, every other entry unchanged and in place.
C20_GetCachedData ==
  [][ dbEvent'.type = "getCachedData"
      => LET key == dbEvent'.key
             fresh == \E i \in 1..Len(cache) :
                        /\ cache[i].key = key
                        /\ dbNow - cache[i].timestamp < dbEvent'.ttl
         IN /\ fresh => /\ dbEvent'.result # NULL
                        /\ dbEvent'.result = stored[key]
                        /\ cache' = cache
            /\ ~fresh => /\ dbEvent'.result = NULL
                         /\ cache' = SelectSeq(cache, LAMBDA e : e.key # key) ]_vars

\* the first call asked for an entry at the age of exactly ttl: it got null,
\* the entry is gone and the other entries of the nearly full cache are there
C20_Witness ==
  /\ dbEvent.type = "getCachedData" /\ dbEvent.result = NULL
  /\ dbCalls = 1 /\ dbNow = dbEvent.ttl
  /\ stored[dbEvent.key] # NULL
  /\ \A i \in 1..Len(cache) : cache[i].key # dbEvent.key
  /\ Len(cache) = MAX_CACHE_ENTRIES + 1 - Cardinality(DbKeys)

====
